---- MODULE Spec2Model ----
(***************************************************************************)
(* Negative News Scrubber (negative_news_scrubber_app.py).                 *)
(*                                                                         *)
(* One run of the Streamlit script: the form's widget values, the input    *)
(* checks, the per-entity loop around NewsApiClient.get_everything, the    *)
(* flattening of the returned article dicts into rows, and the final       *)
(* rendering.  The news API is the environment: each call either raises    *)
(* or returns a list of article dicts.                                     *)
(*                                                                         *)
(* Python strings are TLA+ strings; Python values that may be None, a      *)
(* string or a dict are tagged records ([t |-> "None"], [t |-> "str", ..], *)
(* [t |-> "dict", ..]); a key that a dict does not hold is the tagged      *)
(* value Missing.  Dates are day numbers.                                  *)
(***************************************************************************)
EXTENDS Integers, Sequences, FiniteSets, TLC

\* ------------------------------------------------------------------ bounds
MaxInputLen == 3     \* characters in the "Emails or Business Names" text area
MaxArticles == 2     \* articles one search call returns
MaxKeywords == 2     \* keywords handed to search_entity when it is called alone

\* ------------------------------------------------------- Python primitives
Min(a, b) == IF a <= b THEN a ELSE b

None     == [t |-> "None"]
Missing  == [t |-> "missing"]
Str(s)   == [t |-> "str", v |-> s]
Dict(d)  == [t |-> "dict", v |-> d]

\* str.isspace() on the characters the inputs are drawn from
IsSpace(c) == c \in {" ", "\n"}

CharAt(s, i) == SubSeq(s, i, i)

RECURSIVE lstrip(_)
lstrip(s) ==
    IF Len(s) > 0 /\ IsSpace(CharAt(s, 1)) THEN lstrip(SubSeq(s, 2, Len(s))) ELSE s

RECURSIVE rstrip(_)
rstrip(s) ==
    IF Len(s) > 0 /\ IsSpace(CharAt(s, Len(s)))
    THEN rstrip(SubSeq(s, 1, Len(s) - 1)) ELSE s

\* a check that forgets to strip
strip_omitted(s) == s

\* str.strip()
strip(s) == rstrip(lstrip(s))

\* index of the first occurrence of the character c in s, 0 when there is none
RECURSIVE FindFrom(_, _, _)
FindFrom(s, c, i) ==
    IF i > Len(s) THEN 0
    ELSE IF CharAt(s, i) = c THEN i ELSE FindFrom(s, c, i + 1)

\* str.splitlines(): no line for the empty string, none after a final newline
RECURSIVE splitlines(_)
splitlines(s) ==
    IF Len(s) = 0 THEN << >>
    ELSE LET k == FindFrom(s, "\n", 1) IN
         IF k = 0 THEN << s >>
         ELSE << SubSeq(s, 1, k - 1) >> \o splitlines(SubSeq(s, k + 1, Len(s)))

\* str.split(","): always at least one piece, empty pieces kept
RECURSIVE split(_, _)
split(s, sep) ==
    LET k == FindFrom(s, sep, 1) IN
    IF k = 0 THEN << s >>
    ELSE << SubSeq(s, 1, k - 1) >> \o split(SubSeq(s, k + 1, Len(s)), sep)

\* sep.join(items)
RECURSIVE join(_, _)
join(sep, items) ==
    IF Len(items) = 0 THEN ""
    ELSE IF Len(items) = 1 THEN items[1]
    ELSE items[1] \o sep \o join(sep, Tail(items))

\* [f(x) for x in xs if keep(x)] with f = strip, keep = bool(strip(x))
RECURSIVE StripNonBlank(_)
StripNonBlank(xs) ==
    IF Len(xs) = 0 THEN << >>
    ELSE IF strip(Head(xs)) # ""
         THEN << strip(Head(xs)) >> \o StripNonBlank(Tail(xs))
         ELSE StripNonBlank(Tail(xs))

\* dict.get(key): None for a key the dict does not hold
Get(d, key) == IF d[key] = Missing THEN None ELSE d[key]

\* dict.get(key, default)
GetOr(d, key, default) == IF d[key] = Missing THEN default ELSE d[key]

\* bool(v) for None and strings
Truthy(v) == v # None /\ ~(v.t = "str" /\ v.v = "")

\* ------------------------------------------------------------ configuration
DEFAULT_NEGATIVE_KEYWORDS ==
    << "scam",
       "complaint",
       "lawsuit",
       "fraud",
       "fraudulent",
       "bankruptcy",
       "chapter 11",
       "ripoff",
       "bad review",
       "negative review",
       "bbb f rating",
       "court filing",
       "fine",
       "penalty"
       \o "closed"
       \o "shut down"
       \o "out of business"
       \o "stole"
       \o "not answering" >>

RESULTS_PER_QUERY == 25
DATE_RANGE_DAYS   == 365 * 3
ApiPageCeiling    == 100
DaysPerYear       == 365

\* ------------------------------------------------------------------ inputs
NameChars == {"a", "b", " ", "\n"}

RECURSIVE TextsOfLen(_, _)
TextsOfLen(chars, n) ==
    IF n = 0 THEN {""}
    ELSE {s \o c : s \in TextsOfLen(chars, n - 1), c \in chars}

TextsUpTo(chars, n) == UNION {TextsOfLen(chars, k) : k \in 0..n}

ApiKeys        == {"", "key"}
CustomKwInputs == {"", " cease and desist, ,shutdown,"}
LookbackYears  == {1, 10}                            \* ends of the slider
ResultLimits   == {RESULTS_PER_QUERY, ApiPageCeiling}   \* default and maximum

\* What get_everything can raise, as the text of the exception.
Exceptions == {"apiKeyInvalid", "rateLimited"}

\* Article dicts the API can return.  Every key may be absent (Missing) or
\* null (None); "source" is otherwise a dict that may hold "name".
FullArticle ==
    [title       |-> Str("Acme sued for fraud"),
     source      |-> Dict([name |-> Str("Daily News")]),
     publishedAt |-> Str("2024-03-01T12:00:00Z"),
     url         |-> Str("http://example.com/1")]

SparseArticle ==
    [title       |-> None,
     source      |-> Missing,
     publishedAt |-> Missing,
     url         |-> Missing]

NullSourceArticle ==
    [title       |-> Str("Acme fined"),
     source      |-> None,
     publishedAt |-> Str("2024-03-02"),
     url         |-> Str("http://example.com/2")]

ArticleRecords == {FullArticle, SparseArticle, NullSourceArticle}

RECURSIVE SeqsOfLen(_, _)
SeqsOfLen(S, n) ==
    IF n = 0 THEN {<< >>}
    ELSE {Append(q, x) : q \in SeqsOfLen(S, n - 1), x \in S}

SeqsUpTo(S, n) == UNION {SeqsOfLen(S, k) : k \in 0..n}

\* ------------------------------------------------------------------- state
VARIABLES
    api_key,            \* st.text_input "NewsAPI.org Key"
    names_input,        \* st.text_area "Emails or Business Names"
    custom_kw,          \* st.text_input "Additional negative keywords"
    lookback_years,     \* slider
    results_limit,      \* number_input
    midnight,           \* TRUE once the UTC date has changed since the run began
    pc,                 \* "form", "stopped", "calling", "done", "crashed"
    negative_keywords,
    entities,
    idx,                \* enumerate index of the entity being searched
    aggregated_rows,
    calls,              \* get_everything calls issued, in order
    responses,          \* what each finished call did: returned or raised
    errors,             \* st.error messages shown, in order
    shown               \* final rendering: "nothing", "table", "success"

vars == << api_key, names_input, custom_kw, lookback_years, results_limit,
           midnight, pc, negative_keywords, entities, idx, aggregated_rows,
           calls, responses, errors, shown >>

form == << api_key, names_input, custom_kw, lookback_years, results_limit >>

\* --------------------------------------------------------- helper functions
\* the entity left unquoted
build_query_unquoted(entity, keywords) ==
    entity \o " AND (" \o join(" OR ", keywords) \o ")"

build_query(entity, keywords) ==
    LET kws == join(" OR ", keywords) IN
    "\"" \o entity \o "\" AND (" \o kws \o ")"

\* utcnow() as a day number: the day the run began, or the next one
UtcToday(m) == IF m THEN 1 ELSE 0

\* the look-back taken from the module constant instead of the slider
SearchArgsDefaultRange(entity, keywords, m) ==
    [q          |-> build_query(entity, keywords),
     from_param |-> UtcToday(m) - DATE_RANGE_DAYS,
     language   |-> "en",
     sort_by    |-> "relevancy",
     page_size  |-> Min(results_limit, ApiPageCeiling),
     utcnow     |-> UtcToday(m)]

\* search_entity up to the call: the keyword arguments of get_everything
\* (utcnow is the clock reading date_from was computed from)
SearchArgs(entity, keywords, m) ==
    [q          |-> build_query(entity, keywords),
     from_param |-> UtcToday(m) - lookback_years * DaysPerYear,
     language   |-> "en",
     sort_by    |-> "relevancy",
     page_size  |-> Min(results_limit, ApiPageCeiling),
     utcnow     |-> UtcToday(m)]

\* the error shown without the entity it belongs to
SearchErrorTextAnonymous(entity, exc) == "Error querying NewsAPI: " \o exc

\* st.error text of search_entity's except branch
SearchErrorText(entity, exc) ==
    "Error querying NewsAPI for " \o entity \o ": " \o exc

EmptyDict == Dict([name |-> Missing])

\* art.get("source", {}).get("name") raises AttributeError on a null source
RowRaises(art) == GetOr(art, "source", EmptyDict) = None

\* art.get("publishedAt")[:10]
Slice10(s) == SubSeq(s, 1, Min(10, Len(s)))

\* the dict appended for one article
Row(entity, art) ==
    [Entity    |-> entity,
     Title     |-> Get(art, "title"),
     Source    |-> Get(GetOr(art, "source", EmptyDict).v, "name"),
     Published |-> IF Truthy(Get(art, "publishedAt"))
                   THEN Str(Slice10(Get(art, "publishedAt").v))
                   ELSE None,
     URL       |-> Get(art, "url")]

\* for art in articles: aggregated_rows.append(...), stopping where a row raises
RECURSIVE AppendRows(_, _, _)
AppendRows(rows, entity, articles) ==
    IF Len(articles) = 0 THEN [rows |-> rows, raised |-> FALSE]
    ELSE IF RowRaises(Head(articles)) THEN [rows |-> rows, raised |-> TRUE]
    ELSE AppendRows(Append(rows, Row(entity, Head(articles))), entity,
                    Tail(articles))

\* what is rendered after the loop
Render(rows) == IF Len(rows) > 0 THEN "table" ELSE "success"

\* additional keywords: [kw.strip() for kw in custom_kw.split(",") if kw.strip()]
CustomKeywords(text) == StripNonBlank(split(text, ","))

\* entities: [n.strip() for n in names_input.splitlines() if n.strip()]
ParseEntities(text) == StripNonBlank(splitlines(text))

\* ------------------------------------------------------------------ actions
Init ==
    /\ api_key \in ApiKeys
    /\ names_input \in TextsUpTo(NameChars, MaxInputLen)
    /\ custom_kw \in CustomKwInputs
    /\ lookback_years \in LookbackYears
    /\ results_limit \in ResultLimits
    /\ midnight = FALSE
    /\ pc = "form"
    /\ negative_keywords = << >>
    /\ entities = << >>
    /\ idx = 0
    /\ aggregated_rows = << >>
    /\ calls = << >>
    /\ responses = << >>
    /\ errors = << >>
    /\ shown = "nothing"

\* st.error(...); st.stop()
Stop(message) ==
    /\ errors' = Append(errors, message)
    /\ pc' = "stopped"
    /\ UNCHANGED << midnight, negative_keywords, entities, idx, aggregated_rows,
                    calls, responses, shown >>

\* The for loop reaching iteration i with `rows` aggregated so far: the next
\* search call is issued, or the loop is over and the result is rendered.
EnterIteration(ents, kws, i, rows) ==
    IF i <= Len(ents)
    THEN \E m \in {midnight, TRUE} :
            /\ midnight' = m
            /\ calls' = Append(calls, SearchArgs(ents[i], kws, m))
            /\ idx' = i
            /\ pc' = "calling"
            /\ shown' = shown
    ELSE /\ pc' = "done"
         /\ shown' = Render(rows)
         /\ UNCHANGED << midnight, calls, idx >>

\* "Run Search" pressed: input checks, keyword and entity lists, first call.
RunSearch ==
    /\ pc = "form"
    /\ UNCHANGED form
    /\ IF api_key = ""
       THEN Stop("Please provide a valid NewsAPI.org key to proceed.")
       ELSE IF strip(names_input) = ""
       THEN Stop("Please enter at least one e-mail or business name.")
       ELSE LET kws  == DEFAULT_NEGATIVE_KEYWORDS \o CustomKeywords(custom_kw)
                ents == ParseEntities(names_input)
            IN  /\ negative_keywords' = kws
                /\ entities' = ents
                /\ aggregated_rows' = << >>
                /\ UNCHANGED << responses, errors >>
                /\ EnterIteration(ents, kws, 1, << >>)

\* get_everything returns: the articles are flattened, then the loop goes on.
SearchReturns(articles) ==
    /\ pc = "calling"
    /\ responses' = Append(responses, [ok |-> TRUE, articles |-> articles, exc |-> ""])
    /\ UNCHANGED << form, negative_keywords, entities, errors >>
    /\ LET r == AppendRows(aggregated_rows, entities[idx], articles) IN
       /\ aggregated_rows' = r.rows
       /\ IF r.raised
          THEN /\ pc' = "crashed"
               /\ UNCHANGED << midnight, calls, idx, shown >>
          ELSE EnterIteration(entities, negative_keywords, idx + 1, r.rows)

\* get_everything raises: the error is shown, no article, the loop goes on.
SearchRaises(exc) ==
    /\ pc = "calling"
    /\ responses' = Append(responses, [ok |-> FALSE, articles |-> << >>, exc |-> exc])
    /\ errors' = Append(errors, SearchErrorText(entities[idx], exc))
    /\ UNCHANGED << form, negative_keywords, entities, aggregated_rows >>
    /\ EnterIteration(entities, negative_keywords, idx + 1, aggregated_rows)

Next ==
    \/ RunSearch
    \/ \E articles \in SeqsUpTo(ArticleRecords, MaxArticles) : SearchReturns(articles)
    \/ \E exc \in Exceptions : SearchRaises(exc)

Spec == Init /\ [][Next]_vars

\* The same program run on lists of three entities.
LongListInputs == {"a\nb\na", " a\n\nb \nab"}

InitLongList ==
    /\ api_key = "key"
    /\ names_input \in LongListInputs
    /\ custom_kw \in CustomKwInputs
    /\ lookback_years \in LookbackYears
    /\ results_limit \in ResultLimits
    /\ midnight = FALSE
    /\ pc = "form"
    /\ negative_keywords = << >>
    /\ entities = << >>
    /\ idx = 0
    /\ aggregated_rows = << >>
    /\ calls = << >>
    /\ responses = << >>
    /\ errors = << >>
    /\ shown = "nothing"

SpecLongList == InitLongList /\ [][Next]_vars

\* search_entity called on its own with any entity and any keyword list, up to
\* the point where get_everything is called.
EntityChars == {"a", "b", " ", "\""}
KeywordPool == {"scam", "chapter 11", "cease-and-desist"}

InitQuery ==
    /\ api_key = "key"
    /\ names_input = ""
    /\ custom_kw = ""
    /\ lookback_years \in LookbackYears
    /\ results_limit = RESULTS_PER_QUERY
    /\ midnight = FALSE
    /\ pc = "ready"
    /\ negative_keywords \in SeqsUpTo(KeywordPool, MaxKeywords) \ {<< >>}
    /\ \E e \in TextsUpTo(EntityChars, MaxInputLen) :
            /\ e # "" /\ strip(e) = e
            /\ entities = << e >>
    /\ idx = 0
    /\ aggregated_rows = << >>
    /\ calls = << >>
    /\ responses = << >>
    /\ errors = << >>
    /\ shown = "nothing"

CallSearch ==
    /\ pc = "ready"
    /\ EnterIteration(entities, negative_keywords, 1, aggregated_rows)
    /\ UNCHANGED << form, negative_keywords, entities, aggregated_rows,
                    responses, errors >>

SpecQuery == InitQuery /\ [][CallSearch]_vars

\* ------------------------------------------------------------- vocabulary
\* the text holds a character that is not white space: some line is not blank
HasNonBlankLine(text) == \E i \in 1..Len(text) : ~IsSpace(CharAt(text, i))

PassedValidation == pc \in {"calling", "done", "crashed"}
RunOver          == pc \in {"stopped", "done", "crashed"}

Range(f) == {f[i] : i \in DOMAIN f}

\* number of articles returned by the first n finished calls
RECURSIVE ArticlesReturned(_)
ArticlesReturned(n) ==
    IF n = 0 THEN 0 ELSE ArticlesReturned(n - 1) + Len(responses[n].articles)

\* the per-entity failure report the first n finished calls call for
RECURSIVE FailureReport(_)
FailureReport(n) ==
    IF n = 0 THEN << >>
    ELSE IF responses[n].ok THEN FailureReport(n - 1)
    ELSE Append(FailureReport(n - 1),
                "Error querying NewsAPI for " \o entities[n] \o ": "
                    \o responses[n].exc)

\* keywords k[1] .. k[n] chained left to right with OR
RECURSIVE OrChain(_, _)
OrChain(k, n) == IF n = 1 THEN k[1] ELSE OrChain(k, n - 1) \o " OR " \o k[n]

\* C2: the failure report holds one entry, naming the entity and the error,
\* for each entity whose search call failed and none for an entity whose call
\* returned, also when it returned no article; when every entity's search
\* returns no article the run ends with no row and an empty failure report.
C2_FailureReport ==
    PassedValidation =>
        /\ errors = FailureReport(Len(responses))
        /\ ( /\ pc = "done"
             /\ \A i \in DOMAIN responses :
                    responses[i].ok /\ responses[i].articles = << >> )
           => /\ Len(responses) = Len(entities)
              /\ aggregated_rows = << >>
              /\ errors = << >>

C2_Witness ==
    /\ pc = "done"
    /\ Len(responses) = 2
    /\ ~responses[1].ok
    /\ responses[2].ok /\ responses[2].articles = << >>
    /\ Len(errors) = 1

\* C5: a run triggered with an empty key, or with an entity text that has no
\* non-blank line, ends in an input error with no search call and no row;
\* no search call is made in a run that has not passed both checks.
C5_InputErrorsBeforeAnySearch ==
    /\ (pc # "form" /\ (api_key = "" \/ ~HasNonBlankLine(names_input)))
       => /\ pc = "stopped"
          /\ Len(errors) = 1
          /\ calls = << >>
          /\ aggregated_rows = << >>
          /\ shown = "nothing"
    /\ calls # << >> => (api_key # "" /\ HasNonBlankLine(names_input))

C5_Witness ==
    /\ pc = "stopped"
    /\ api_key # ""
    /\ Len(names_input) > 1
    /\ calls = << >>

\* C6: the query of every call is the double-quoted entity, then " AND (",
\* then the keywords in their order joined by " OR ", unaltered, then ")".
C6_QueryShape ==
    \A i \in DOMAIN calls :
        calls[i].q = "\"" \o entities[i] \o "\"" \o " AND ("
                        \o OrChain(negative_keywords, Len(negative_keywords))
                        \o ")"

C6_Witness ==
    /\ Len(calls) = 1
    /\ entities[1] = "a b"
    /\ negative_keywords = << "chapter 11", "scam" >>
    /\ calls[1].q = "\"a b\" AND (chapter 11 OR scam)"

\* C9: every search call asks for English, relevancy order, a page size of
\* min(requested maximum, 100) and a start date lookback-years times 365 days
\* before the day of the call; the first and the last call of a run use the
\* same look-back window and the same page size.
C9_SearchParameters ==
    /\ \A i \in DOMAIN calls :
        /\ calls[i].language = "en"
        /\ calls[i].sort_by = "relevancy"
        /\ calls[i].page_size
              = (IF results_limit > 100 THEN 100 ELSE results_limit)
        /\ calls[i].utcnow - calls[i].from_param = lookback_years * 365
    /\ calls # << >> =>
        /\ calls[1].page_size = calls[Len(calls)].page_size
        /\ calls[1].utcnow - calls[1].from_param
              = calls[Len(calls)].utcnow - calls[Len(calls)].from_param

C9_Witness ==
    /\ pc = "done"
    /\ Len(calls) = 2
    /\ calls[1].from_param # calls[2].from_param
    /\ lookback_years = 10

\* ------------------------------------------- claims the code does not meet
\* rows the code appends for the entities whose call returned, among the
\* first n finished calls
RECURSIVE RowsOfReturned(_)
RowsOfReturned(n) ==
    IF n = 0 THEN << >>
    ELSE IF responses[n].ok
         THEN RowsOfReturned(n - 1)
                \o AppendRows(<< >>, entities[n], responses[n].articles).rows
         ELSE RowsOfReturned(n - 1)

\* C1: when the search call fails for an entity the run does not halt: every
\* entity after it is still searched, the failed entity adds no row, and the
\* rows are those of the entities whose search returned.
C1_FailureDoesNotHaltRun ==
    (pc \in {"done", "crashed"} /\ \E e \in DOMAIN responses : ~responses[e].ok)
        => /\ Len(calls) = Len(entities)
           /\ aggregated_rows = RowsOfReturned(Len(responses))

\* C3: a run that passes validation calls the search once per entity of the
\* trimmed, blank-line-filtered list, in input order, one call at a time, and
\* ends after the last entity.
C3_OneCallPerEntityInOrder ==
    PassedValidation =>
        /\ entities = ParseEntities(names_input)
        /\ Len(calls) = Len(responses) + (IF pc = "calling" THEN 1 ELSE 0)
        /\ \A i \in DOMAIN calls :
                calls[i].q = build_query(entities[i], negative_keywords)
        /\ pc # "calling" => (pc = "done" /\ Len(calls) = Len(entities))

\* the entity whose call returned the k-th article, counting finished calls from i
RECURSIVE Owner(_, _)
Owner(k, i) == IF k <= ArticlesReturned(i) THEN i ELSE Owner(k, i + 1)

\* C4: after a run the rows are the articles of each entity in submission
\* order: as many rows as articles were returned, each tagged with the entity
\* whose query returned it.
C4_RowsAreConcatenation ==
    pc \in {"done", "crashed"} =>
        /\ Len(aggregated_rows) = ArticlesReturned(Len(responses))
        /\ \A k \in DOMAIN aggregated_rows :
                aggregated_rows[k].Entity = entities[Owner(k, 1)]

\* a field that is absent or null becomes null, any other value is kept
NullIfAbsent(v) == IF v = Missing THEN None ELSE v

\* the row the claim gives for an article
ClaimedRow(entity, art) ==
    [Entity    |-> entity,
     Title     |-> NullIfAbsent(art.title),
     Source    |-> IF art.source.t = "dict"
                   THEN NullIfAbsent(art.source.v.name) ELSE None,
     Published |-> IF art.publishedAt.t = "str" /\ art.publishedAt.v # ""
                   THEN Str(SubSeq(art.publishedAt.v, 1,
                                   Min(10, Len(art.publishedAt.v))))
                   ELSE None,
     URL       |-> NullIfAbsent(art.url)]

RECURSIVE ClaimedRows(_)
ClaimedRows(n) ==
    IF n = 0 THEN << >>
    ELSE ClaimedRows(n - 1)
            \o [k \in 1..Len(responses[n].articles) |->
                    ClaimedRow(entities[n], responses[n].articles[k])]

\* C7: every article a search returns, whichever of its fields are missing
\* or null, gives exactly one row and the run continues.
C7_OneRowPerArticle ==
    PassedValidation =>
        /\ pc # "crashed"
        /\ aggregated_rows = ClaimedRows(Len(responses))

IntendedKeywords ==
    {"penalty", "closed", "shut down", "out of business", "stole", "not answering"}

\* C8: each intended built-in keyword is an entry of its own of the keyword
\* list the queries are built from.
C8_KeywordsAreSeparateEntries ==
    PassedValidation => IntendedKeywords \subseteq Range(negative_keywords)

\* C10: a run that passed validation ends with the results table when rows
\* were aggregated and with the success message when there are none.
C10_TableOrSuccess ==
    pc \in {"done", "crashed"} =>
        \/ shown = "table" /\ aggregated_rows # << >>
        \/ shown = "success" /\ aggregated_rows = << >>

\* ----------------------------------------------------- what holds instead
\* On runs in which no row raised, C1, C3, C4, C7 and C10 hold as stated.
CompletedRuns ==
    pc = "done" =>
        /\ Len(calls) = Len(entities)
        /\ Len(responses) = Len(entities)
        /\ aggregated_rows = ClaimedRows(Len(responses))
        /\ Len(aggregated_rows) = ArticlesReturned(Len(responses))
        /\ shown = (IF aggregated_rows = << >> THEN "success" ELSE "table")

\* In every state short of a raised row, the formulas of C1, C3, C4, C7 and
\* C10 hold: the null source is their only way to fail.
HoldsUnlessRowRaises ==
    pc # "crashed" =>
        /\ C1_FailureDoesNotHaltRun
        /\ C3_OneCallPerEntityInOrder
        /\ C4_RowsAreConcatenation
        /\ C7_OneRowPerArticle
        /\ C10_TableOrSuccess

\* Rows already appended are never reordered, altered or removed.
RowsOnlyGrow ==
    [][ /\ Len(aggregated_rows') >= Len(aggregated_rows)
        /\ SubSeq(aggregated_rows', 1, Len(aggregated_rows)) = aggregated_rows
      ]_vars

\* A run crashes exactly when a returned article has a null source.
CrashOnlyOnNullSource ==
    pc = "crashed" <=>
        /\ responses # << >>
        /\ \E k \in DOMAIN responses[Len(responses)].articles :
                responses[Len(responses)].articles[k].source = None

====
